---- MODULE Spec2Model ----
(***************************************************************************)
(* dgGit (src/main.go): a clipboard-to-file utility.  One invocation loads *)
(* the configuration (running the setup wizard when dggit.cfg is absent),  *)
(* refreshes the shell registration, resolves the save directory, reads    *)
(* the clipboard, derives a file name from its first line, writes the      *)
(* file, optionally commits it, clears the clipboard and notifies.         *)
(*                                                                         *)
(* Strings are sequences of one-character strings.  A longer string used   *)
(* as an element (the text of a comment line of the config file) stands    *)
(* for a run of ordinary characters: none of them is a space, a newline,   *)
(* '=', '#', a quote or an upper-case letter of a key.                     *)
(***************************************************************************)
EXTENDS Naturals, Sequences, FiniteSets

\* ------------------------------------------------------------------ bounds
\* invocations of the program in one behaviour
MaxRuns == 2
\* length of the clipboard texts drawn for the file-name derivation
MaxClipLen == 3
\* length of the prefix sets drawn for the file-name derivation
MaxPrefixLen == 4

\* ----------------------------------------------------- package "strings"
NL == "\n"
CR == "\r"
TAB == "\t"
SP == " "
QUOTE == "\""
BSLASH == "\\"

\* unicode.IsSpace on the characters of the model
IsSpace(c) == c \in {SP, TAB, NL, CR}

RECURSIVE TrimLeftSpace(_)
TrimLeftSpace(s) ==
    IF s # <<>> /\ IsSpace(Head(s)) THEN TrimLeftSpace(Tail(s)) ELSE s

RECURSIVE TrimRightSpace(_)
TrimRightSpace(s) ==
    IF s # <<>> /\ IsSpace(s[Len(s)])
    THEN TrimRightSpace(SubSeq(s, 1, Len(s) - 1))
    ELSE s

\* strings.TrimSpace
TrimSpace(s) == TrimRightSpace(TrimLeftSpace(s))

RECURSIVE TrimLeftChar(_, _)
TrimLeftChar(s, c) ==
    IF s # <<>> /\ Head(s) = c THEN TrimLeftChar(Tail(s), c) ELSE s

RECURSIVE TrimRightChar(_, _)
TrimRightChar(s, c) ==
    IF s # <<>> /\ s[Len(s)] = c
    THEN TrimRightChar(SubSeq(s, 1, Len(s) - 1), c)
    ELSE s

\* strings.Trim(s, cutset) for a cutset of one character
Trim(s, c) == TrimRightChar(TrimLeftChar(s, c), c)

\* strings.HasPrefix
HasPrefix(s, p) == Len(p) <= Len(s) /\ SubSeq(s, 1, Len(p)) = p

\* strings.TrimPrefix: the prefix is removed once
TrimPrefix(s, p) ==
    IF HasPrefix(s, p) THEN SubSeq(s, Len(p) + 1, Len(s)) ELSE s

\* strings.ReplaceAll(s, old, new) for a one-character old and any new
RECURSIVE ReplaceAll(_, _, _)
ReplaceAll(s, old, new) ==
    IF s = <<>> THEN <<>>
    ELSE (IF Head(s) = old THEN new ELSE <<Head(s)>>)
         \o ReplaceAll(Tail(s), old, new)

\* index of the first occurrence of c in s, 0 when there is none
RECURSIVE IndexOf(_, _)
IndexOf(s, c) ==
    IF s = <<>> THEN 0
    ELSE IF Head(s) = c THEN 1
    ELSE LET i == IndexOf(Tail(s), c) IN IF i = 0 THEN 0 ELSE i + 1

\* strings.Split(s, sep) for a one-character sep: Split("", sep) is [""]
RECURSIVE Split(_, _)
Split(s, sep) ==
    LET i == IndexOf(s, sep) IN
    IF i = 0 THEN <<s>>
    ELSE <<SubSeq(s, 1, i - 1)>> \o Split(SubSeq(s, i + 1, Len(s)), sep)

\* strings.SplitN(s, sep, 2)
SplitN2(s, sep) ==
    LET i == IndexOf(s, sep) IN
    IF i = 0 THEN <<s>>
    ELSE <<SubSeq(s, 1, i - 1), SubSeq(s, i + 1, Len(s))>>

\* unicode.ToLower on the letters the keys of the config file use
LowerChar(c) ==
    CASE c = "A" -> "a" [] c = "C" -> "c" [] c = "D" -> "d" [] c = "E" -> "e"
      [] c = "G" -> "g" [] c = "M" -> "m" [] c = "P" -> "p" [] c = "S" -> "s"
      [] c = "T" -> "t" [] OTHER -> c

\* strings.ToLower
ToLower(s) == [i \in 1..Len(s) |-> LowerChar(s[i])]

\* all strings over alphabet A of length at most n
StringsUpTo(A, n) == UNION {[1..k -> A] : k \in 0..n}

\* --------------------------------------------------------- file name
\* the characters sanitizeFilename replaces, in the order it replaces them
illegalChars == <<"<", ">", ":", QUOTE, "/", BSLASH, "|", "?", "*">>

IllegalSet == {illegalChars[i] : i \in 1..Len(illegalChars)}

RECURSIVE SanitizeFrom(_, _, _)
SanitizeFrom(name, chars, i) ==
    IF i > Len(chars) THEN name
    ELSE SanitizeFrom(ReplaceAll(name, chars[i], <<"_">>), chars, i + 1)

\* sanitizeFilename with '|' missing from its list
sanitizeFilenameSkipsPipe(name) ==
    SanitizeFrom(name, SelectSeq(illegalChars, LAMBDA c : c # "|"), 1)

\* sanitizeFilename
sanitizeFilename(name) == SanitizeFrom(name, illegalChars, 1)

\* lines[0] of strings.Split(content, "\n"), carriage returns removed, trimmed
FirstLineOf(content) ==
    TrimSpace(ReplaceAll(Split(content, NL)[1], CR, <<>>))

\* the loop over the prefixes: the first non-empty candidate the line starts
\* with is removed and the loop breaks; no match leaves the line as it is
RECURSIVE StripLoop(_, _, _)
StripLoop(line, prefixes, i) ==
    IF i > Len(prefixes) THEN line
    ELSE IF prefixes[i] # <<>> /\ HasPrefix(line, prefixes[i])
         THEN TrimPrefix(line, prefixes[i])
         ELSE StripLoop(line, prefixes, i + 1)

\* the same loop without its break: the last matching candidate decides
RECURSIVE StripLoopNoBreak(_, _, _, _)
StripLoopNoBreak(line, prefixes, i, acc) ==
    IF i > Len(prefixes) THEN acc
    ELSE IF prefixes[i] # <<>> /\ HasPrefix(line, prefixes[i])
         THEN StripLoopNoBreak(line, prefixes, i + 1, TrimPrefix(line, prefixes[i]))
         ELSE StripLoopNoBreak(line, prefixes, i + 1, acc)

\* filenameRaw with the loop's break missing
FilenameRawLastMatch(firstLine, prefixToStrip) ==
    IF prefixToStrip # <<>>
    THEN StripLoopNoBreak(firstLine, Split(prefixToStrip, "|"), 1, firstLine)
    ELSE firstLine

\* filenameRaw with the HasPrefix test missing: the length of the first
\* candidate is cut off whatever the line starts with
FilenameRawAlwaysFirstCandidate(firstLine, prefixToStrip) ==
    IF prefixToStrip # <<>>
    THEN SubSeq(firstLine, Len(Split(prefixToStrip, "|")[1]) + 1, Len(firstLine))
    ELSE firstLine

\* filenameRaw of main
FilenameRaw(firstLine, prefixToStrip) ==
    IF prefixToStrip # <<>>
    THEN StripLoop(firstLine, Split(prefixToStrip, "|"), 1)
    ELSE firstLine

\* safeFilename of main
SafeFilename(firstLine, prefixToStrip, extension) ==
    sanitizeFilename(TrimSpace(FilenameRaw(firstLine, prefixToStrip))) \o extension

\* ------------------------------------------------------------ config file
KeyStartDir == <<"S", "t", "a", "r", "t", "D", "i", "r">>
KeyExtension == <<"E", "x", "t", "e", "n", "s", "i", "o", "n">>
KeyPrefixToStrip == <<"P", "r", "e", "f", "i", "x", "T", "o", "S", "t", "r", "i", "p">>
KeyShowSuccessMessage == <<"S", "h", "o", "w", "S", "u", "c", "c", "e", "s", "s", "M", "e", "s", "s", "a", "g", "e">>
KeyAutoSave == <<"A", "u", "t", "o", "S", "a", "v", "e">>
KeyGitAutoCommit == <<"G", "i", "t", "A", "u", "t", "o", "C", "o", "m", "m", "i", "t">>
StrTrue == <<"t", "r", "u", "e">>
StrFalse == <<"f", "a", "l", "s", "e">>
Dot == <<".">>
DefaultExtension == <<".", "d", "g">>
DefaultPrefix == <<"v", "o", "i", "d", SP>>
WizardPrefixDefault == <<"v", "o", "i", "d", SP, "|", "i", "n", "t", SP, "|", "s", "t", "r", "i", "n", "g", SP>>

\* the zero value Config{} the wizard returns when it is cancelled
ZeroConfig ==
    [StartDir |-> <<>>, Extension |-> <<>>, PrefixToStrip |-> <<>>,
     ShowSuccess |-> FALSE, AutoSave |-> FALSE, GitAutoCommit |-> FALSE]

\* the defaults loadConfig starts from
DefaultConfig ==
    [StartDir |-> Dot, Extension |-> DefaultExtension,
     PrefixToStrip |-> DefaultPrefix,
     ShowSuccess |-> TRUE, AutoSave |-> FALSE, GitAutoCommit |-> FALSE]

\* fmt's %t
FmtBool(b) == IF b THEN StrTrue ELSE StrFalse

\* one comment line of the template
Comment(text) == <<"#", SP, text>>

\* one "Key=value" line of the template (%s and %t write the value as it is)
KeyLine(key, value) == key \o <<"=">> \o value

RECURSIVE JoinLines(_)
JoinLines(ls) ==
    IF ls = <<>> THEN <<>> ELSE Head(ls) \o <<NL>> \o JoinLines(Tail(ls))

\* the text saveConfigToFile formats: every line ends with a newline
ConfigText(c) ==
    JoinLines(<<
        Comment("dgGit Configuration File"),
        <<>>,
        Comment("1. Default Save Directory"),
        Comment("The folder where files will save (unless you right-click a specific folder)."),
        KeyLine(KeyStartDir, c.StartDir),
        <<>>,
        Comment("2. File Extension"),
        Comment("The extension appended to saved files (e.g. .dg, .txt, .js)"),
        KeyLine(KeyExtension, c.Extension),
        <<>>,
        Comment("3. Clipboard Cleaning"),
        Comment("Text to automatically remove from the start of the filename."),
        Comment("You can separate multiple options with a pipe symbol \"|\"."),
        Comment("Example: \"void |int |string \""),
        KeyLine(KeyPrefixToStrip, c.PrefixToStrip),
        <<>>,
        Comment("4. User Interface"),
        Comment("Show a popup message when a file is saved successfully? (true/false)"),
        KeyLine(KeyShowSuccessMessage, FmtBool(c.ShowSuccess)),
        <<>>,
        Comment("5. Automation"),
        Comment("Save immediately to StartDir without showing the folder browser? (true/false)"),
        KeyLine(KeyAutoSave, FmtBool(c.AutoSave)),
        <<>>,
        Comment("6. Version Control"),
        Comment("Automatically run 'git add' and 'git commit' after saving? (true/false)"),
        Comment("Note: Git must be installed and the target folder must be a git repo."),
        KeyLine(KeyGitAutoCommit, FmtBool(c.GitAutoCommit))
    >>)

\* bufio.ScanLines: the text is cut at each newline, a trailing carriage
\* return of a line is dropped, and an empty last piece is no line
DropCR(l) == IF l # <<>> /\ l[Len(l)] = CR THEN SubSeq(l, 1, Len(l) - 1) ELSE l

ScanLines(text) ==
    LET pieces == Split(text, NL)
        kept == IF pieces[Len(pieces)] = <<>>
                THEN SubSeq(pieces, 1, Len(pieces) - 1)
                ELSE pieces
    IN  [i \in 1..Len(kept) |-> DropCR(kept[i])]

\* the switch of loadConfig on the lower-cased key
SetKey(c, key, val) ==
    CASE key = ToLower(KeyStartDir) -> [c EXCEPT !.StartDir = val]
      [] key = ToLower(KeyExtension) -> [c EXCEPT !.Extension = val]
      [] key = ToLower(KeyPrefixToStrip) -> [c EXCEPT !.PrefixToStrip = Trim(val, QUOTE)]
      [] key = ToLower(KeyShowSuccessMessage) -> [c EXCEPT !.ShowSuccess = (val = StrTrue)]
      [] key = ToLower(KeyAutoSave) -> [c EXCEPT !.AutoSave = (val = StrTrue)]
      [] key = ToLower(KeyGitAutoCommit) -> [c EXCEPT !.GitAutoCommit = (val = StrTrue)]
      [] OTHER -> c

\* the body of the scanner loop of loadConfig for one line
ParseLine(c, raw) ==
    LET line == TrimSpace(raw) IN
    IF line = <<>> \/ Head(line) = "#" THEN c
    ELSE LET parts == SplitN2(line, "=") IN
         IF Len(parts) # 2 THEN c
         ELSE SetKey(c, ToLower(TrimSpace(parts[1])), TrimSpace(parts[2]))

RECURSIVE ParseLines(_, _)
ParseLines(c, ls) ==
    IF ls = <<>> THEN c ELSE ParseLines(ParseLine(c, Head(ls)), Tail(ls))

\* loadConfig on a config file that exists and opens
ParseConfig(text) == ParseLines(DefaultConfig, ScanLines(text))

\* ------------------------------------------------------------------ state
VARIABLES
    pc,            \* where the invocation stands in main
    run,           \* the number of this invocation
    cfgFile,       \* dggit.cfg beside the executable: [exists, text]
    files,         \* the files written by os.WriteFile: [dir, name, bytes]
    registry,      \* the context-menu keys under HKCU\Software\Classes
    shortcut,      \* whether the desktop shortcut exists
    clipboard,     \* the text on the clipboard
    args,          \* os.Args[1:]
    events,        \* the dialogs shown and external calls made by this invocation
    cfg,           \* cfg of main
    cancelled,     \* cancelled of main
    isFirstRun,    \* isFirstRun of main
    wiz,           \* the answers runSetupWizard has collected
    written,       \* the last Config given to saveConfigToFile
    saveDir,       \* saveDir of main
    content,       \* content of main
    firstLine,     \* firstLine of main
    filenameRaw,   \* filenameRaw of main
    safeFilename,  \* safeFilename of main
    gitMessage     \* gitMessage of main

world == <<cfgFile, files, registry, shortcut, clipboard>>
locals == <<cfg, cancelled, isFirstRun, wiz, written, saveDir, content,
            firstLine, filenameRaw, safeFilename, gitMessage>>
vars == <<pc, run, args, events, world, locals>>

AppName == "dgGit"
ExePath == "C:\\tools\\dgGit.exe"
OldExePath == "C:\\old\\dgGit.exe"

DirRepo == <<"C", ":", BSLASH, "r">>
DirGone == <<"C", ":", BSLASH, "g">>
ArgDir == <<SP, "C", ":", BSLASH, "t", SP>>
ArgBlank == <<SP>>

\* the directories os.Stat finds
ExistingDirs == {Dot, DirRepo, TrimSpace(ArgDir)}

Ev(op, arg) == [op |-> op, arg |-> arg]

DialogOps == {"dlgs.Info", "dlgs.Warning", "dlgs.Error", "dlgs.Entry",
              "dlgs.Question", "dialog.Directory"}

\* the dialogs among the events
Dialogs(evs) == SelectSeq(evs, LAMBDA e : e.op \in DialogOps)

HasEvent(evs, op) == \E i \in 1..Len(evs) : evs[i].op = op
HasEventWith(evs, op, first) ==
    \E i \in 1..Len(evs) : evs[i].op = op /\ evs[i].arg # <<>> /\ evs[i].arg[1] = first

NoAnswers == [startDir |-> <<>>, ext |-> <<>>, prefix |-> <<>>,
              useGit |-> FALSE, autoSave |-> FALSE, createShortcut |-> FALSE]

\* ------------------------------------------------------- loadConfig, wizard
\* loadConfig: a missing file runs the wizard; a file that does not open
\* leaves the defaults; otherwise the file is parsed
LoadConfig ==
    /\ pc = "loadConfig"
    /\ IF ~cfgFile.exists
       THEN /\ pc' = "wizard.directory"
            /\ UNCHANGED <<events, cfg, cancelled, isFirstRun>>
       ELSE \E opened \in BOOLEAN :
            /\ cfg' = IF opened THEN ParseConfig(cfgFile.text) ELSE DefaultConfig
            /\ events' = Append(events, Ev("os.Open", <<IF opened THEN "ok" ELSE "err">>))
            /\ cancelled' = FALSE
            /\ isFirstRun' = FALSE
            /\ pc' = "afterLoad"
    /\ UNCHANGED <<run, args, world, wiz, written, saveDir, content,
                   firstLine, filenameRaw, safeFilename, gitMessage>>

\* the return of runSetupWizard when a prompt is cancelled
WizardCancel(shown) ==
    /\ events' = events \o shown \o <<Ev("dlgs.Warning", <<"Setup was cancelled.">>)>>
    /\ cfg' = ZeroConfig
    /\ cancelled' = TRUE
    /\ isFirstRun' = TRUE
    /\ pc' = "afterLoad"
    /\ UNCHANGED wiz

WizardDirs == {DirRepo}
WizardExts == {DefaultExtension}
WizardPrefixes == {WizardPrefixDefault}

\* the welcome, step 1: dialog.Directory().Browse()
WizardDirectory ==
    /\ pc = "wizard.directory"
    /\ LET shown == <<Ev("dlgs.Info", <<"Welcome to dgGit!">>),
                      Ev("dlgs.Info", <<"Step 1 Instructions">>)>> IN
       \/ WizardCancel(shown \o <<Ev("dialog.Directory", <<"cancel", "Step 1">>)>>)
       \/ \E d \in WizardDirs :
            /\ events' = events \o shown \o <<Ev("dialog.Directory", <<"ok", "Step 1">>)>>
            /\ wiz' = [wiz EXCEPT !.startDir = d]
            /\ pc' = "wizard.extension"
            /\ UNCHANGED <<cfg, cancelled, isFirstRun>>
    /\ UNCHANGED <<run, args, world, written, saveDir, content,
                   firstLine, filenameRaw, safeFilename, gitMessage>>

\* step 2: dlgs.Entry for the extension
WizardExtension ==
    /\ pc = "wizard.extension"
    /\ LET shown == <<Ev("dlgs.Info", <<"Step 2 Instructions">>)>> IN
       \/ WizardCancel(shown \o <<Ev("dlgs.Entry", <<"cancel", "Step 2">>)>>)
       \/ \E e \in WizardExts :
            /\ events' = events \o shown \o <<Ev("dlgs.Entry", <<"ok", "Step 2">>)>>
            /\ wiz' = [wiz EXCEPT !.ext = e]
            /\ pc' = "wizard.prefix"
            /\ UNCHANGED <<cfg, cancelled, isFirstRun>>
    /\ UNCHANGED <<run, args, world, written, saveDir, content,
                   firstLine, filenameRaw, safeFilename, gitMessage>>

\* step 3 with the test of success missing: a cancelled entry is an answer
WizardPrefixIgnoresCancel ==
    /\ pc = "wizard.prefix"
    /\ \E r \in {"ok", "cancel"} : \E p \in WizardPrefixes :
         /\ events' = events \o <<Ev("dlgs.Info", <<"Step 3 Instructions">>),
                                  Ev("dlgs.Entry", <<r, "Step 3">>)>>
         /\ wiz' = [wiz EXCEPT !.prefix = p]
         /\ pc' = "wizard.git"
         /\ UNCHANGED <<cfg, cancelled, isFirstRun>>
    /\ UNCHANGED <<run, args, world, written, saveDir, content,
                   firstLine, filenameRaw, safeFilename, gitMessage>>

\* step 3: dlgs.Entry for the prefixes
WizardPrefix ==
    /\ pc = "wizard.prefix"
    /\ LET shown == <<Ev("dlgs.Info", <<"Step 3 Instructions">>)>> IN
       \/ WizardCancel(shown \o <<Ev("dlgs.Entry", <<"cancel", "Step 3">>)>>)
       \/ \E p \in WizardPrefixes :
            /\ events' = events \o shown \o <<Ev("dlgs.Entry", <<"ok", "Step 3">>)>>
            /\ wiz' = [wiz EXCEPT !.prefix = p]
            /\ pc' = "wizard.git"
            /\ UNCHANGED <<cfg, cancelled, isFirstRun>>
    /\ UNCHANGED <<run, args, world, written, saveDir, content,
                   firstLine, filenameRaw, safeFilename, gitMessage>>

\* what a dlgs.Question can come back with: its error is dropped, so a
\* dismissed or failed question reads as No
QuestionAnswers == {"yes", "no", "dismissed"}

\* a yes/no step of the wizard: the answer is stored and the wizard goes on
WizardQuestion(here, title, field, next) ==
    /\ pc = here
    /\ \E a \in QuestionAnswers :
         /\ events' = Append(events, Ev("dlgs.Question", <<a, title>>))
         /\ wiz' = [wiz EXCEPT ![field] = (a = "yes")]
    /\ pc' = next
    /\ UNCHANGED <<run, args, world, cfg, cancelled, isFirstRun,
                   written, saveDir, content, firstLine, filenameRaw,
                   safeFilename, gitMessage>>

\* step 4
WizardGit == WizardQuestion("wizard.git", "Step 4: Git Integration", "useGit", "wizard.autoSave")

\* step 5
WizardAutoSave == WizardQuestion("wizard.autoSave", "Step 5: Auto-Save Mode", "autoSave", "wizard.shortcut")

\* step 6
WizardShortcut == WizardQuestion("wizard.shortcut", "Step 6: Desktop Shortcut", "createShortcut", "wizard.finish")

\* newCfg of runSetupWizard
NewCfg(w) ==
    [StartDir |-> w.startDir, Extension |-> w.ext, PrefixToStrip |-> w.prefix,
     ShowSuccess |-> TRUE, AutoSave |-> w.autoSave, GitAutoCommit |-> w.useGit]

\* saveConfigToFile: the error of os.WriteFile is dropped
SaveConfigToFile(c, wrote) ==
    /\ cfgFile' = IF wrote THEN [exists |-> TRUE, text |-> ConfigText(c)] ELSE cfgFile
    /\ written' = c

\* the end of the wizard: the config is saved, the shortcut made, the last
\* message shown
WizardFinish ==
    /\ pc = "wizard.finish"
    /\ \E wrote \in BOOLEAN : \E linked \in BOOLEAN :
         /\ SaveConfigToFile(NewCfg(wiz), wrote)
         /\ shortcut' = (shortcut \/ (wiz.createShortcut /\ linked))
         /\ events' = events
              \o <<Ev("saveConfigToFile", <<IF wrote THEN "ok" ELSE "err">>)>>
              \o (IF wiz.createShortcut
                  THEN <<Ev("createDesktopShortcut", <<IF linked THEN "ok" ELSE "err">>)>>
                       \o (IF linked THEN <<>>
                           ELSE <<Ev("dlgs.Error", <<"Could not create shortcut">>)>>)
                  ELSE <<>>)
              \o <<Ev("dlgs.Info", <<"Setup Complete!">>)>>
    /\ cfg' = NewCfg(wiz)
    /\ cancelled' = FALSE
    /\ isFirstRun' = TRUE
    /\ pc' = "afterLoad"
    /\ UNCHANGED <<run, args, files, registry, clipboard, wiz, saveDir,
                   content, firstLine, filenameRaw, safeFilename, gitMessage>>

\* main: if cancelled { return }
ReturnIfCancelled ==
    /\ pc = "afterLoad"
    /\ cancelled
    /\ pc' = "done"
    /\ UNCHANGED <<run, args, events, world, locals>>

\* ---------------------------------------------------------------- registry
NoMenuKey == [key |-> FALSE, name |-> <<>>, icon |-> <<>>,
              commandKey |-> FALSE, command |-> <<>>]

\* cmdStr of setMenuKey
CmdStr(exePath, passArg) ==
    IF passArg THEN <<QUOTE, exePath, QUOTE, SP, QUOTE, "%1", QUOTE>>
    ELSE <<QUOTE, exePath, QUOTE>>

RegEmpty == [background |-> NoMenuKey, directory |-> NoMenuKey,
             star |-> [key |-> FALSE, commandKey |-> FALSE]]

\* the registry an older copy of the program left behind
RegStale ==
    [background |-> [key |-> TRUE, name |-> <<AppName>>, icon |-> <<"shell32.dll,259">>,
                     commandKey |-> TRUE, command |-> CmdStr(OldExePath, FALSE)],
     directory |-> NoMenuKey,
     star |-> [key |-> TRUE, commandKey |-> TRUE]]

\* setMenuKey: failAt is "key" when creating the menu key fails, "command"
\* when creating its command key fails, "none" otherwise; the command string
\* is written only when it differs from the stored one
SetMenuKey(k, exePath, passArg, failAt) ==
    IF failAt = "key" THEN k
    ELSE LET named == [k EXCEPT !.key = TRUE, !.name = <<AppName>>,
                                !.icon = <<"shell32.dll,259">>] IN
         IF failAt = "command" THEN named
         ELSE [named EXCEPT !.commandKey = TRUE,
                            !.command = IF @ # CmdStr(exePath, passArg)
                                        THEN CmdStr(exePath, passArg) ELSE @]

RegistryFailures == {"none", "os.Executable", "background.key", "background.command",
                     "directory.key", "directory.command"}

\* the registry updateRegistry leaves when it fails at failAt
RegistryAfter(reg, failAt) ==
    CASE failAt = "os.Executable" -> reg
      [] failAt = "background.key" ->
            [reg EXCEPT !.background = SetMenuKey(@, ExePath, FALSE, "key")]
      [] failAt = "background.command" ->
            [reg EXCEPT !.background = SetMenuKey(@, ExePath, FALSE, "command")]
      [] failAt = "directory.key" ->
            [reg EXCEPT !.background = SetMenuKey(@, ExePath, FALSE, "none"),
                        !.directory = SetMenuKey(@, ExePath, TRUE, "key")]
      [] failAt = "directory.command" ->
            [reg EXCEPT !.background = SetMenuKey(@, ExePath, FALSE, "none"),
                        !.directory = SetMenuKey(@, ExePath, TRUE, "command")]
      [] OTHER ->
            [reg EXCEPT !.background = SetMenuKey(@, ExePath, FALSE, "none"),
                        !.directory = SetMenuKey(@, ExePath, TRUE, "none"),
                        !.star = [key |-> FALSE, commandKey |-> FALSE]]

\* step 2 with the return after the setup-error dialog missing
UpdateRegistryThenSaveAnyway ==
    /\ pc = "afterLoad"
    /\ ~cancelled
    /\ \E failAt \in RegistryFailures :
         /\ registry' = RegistryAfter(registry, failAt)
         /\ IF failAt # "none"
            THEN /\ events' = events \o <<Ev("updateRegistry", <<"err", failAt>>),
                                          Ev("dlgs.Error", <<"Setup Error">>)>>
                 /\ pc' = "resolveDir"
            ELSE /\ events' = Append(events, Ev("updateRegistry", <<"ok">>))
                 /\ pc' = IF isFirstRun THEN "done" ELSE "resolveDir"
    /\ UNCHANGED <<run, args, cfgFile, files, shortcut, clipboard, locals>>

\* step 2 with the return of a first run missing
UpdateRegistrySavesOnFirstRun ==
    /\ pc = "afterLoad"
    /\ ~cancelled
    /\ \E failAt \in RegistryFailures :
         /\ registry' = RegistryAfter(registry, failAt)
         /\ IF failAt # "none"
            THEN /\ events' = events \o <<Ev("updateRegistry", <<"err", failAt>>),
                                          Ev("dlgs.Error", <<"Setup Error">>)>>
                 /\ pc' = "done"
            ELSE /\ events' = Append(events, Ev("updateRegistry", <<"ok">>))
                 /\ pc' = "resolveDir"
    /\ UNCHANGED <<run, args, cfgFile, files, shortcut, clipboard, locals>>

\* main, step 2: updateRegistry; an error shows the setup-error dialog and
\* ends the run; a first run ends here too
UpdateRegistry ==
    /\ pc = "afterLoad"
    /\ ~cancelled
    /\ \E failAt \in RegistryFailures :
         /\ registry' = RegistryAfter(registry, failAt)
         /\ IF failAt # "none"
            THEN /\ events' = events \o <<Ev("updateRegistry", <<"err", failAt>>),
                                          Ev("dlgs.Error", <<"Setup Error">>)>>
                 /\ pc' = "done"
            ELSE /\ events' = Append(events, Ev("updateRegistry", <<"ok">>))
                 /\ pc' = IF isFirstRun THEN "done" ELSE "resolveDir"
    /\ UNCHANGED <<run, args, cfgFile, files, shortcut, clipboard, locals>>

\* ------------------------------------------------------------ save pipeline
\* what the folder dialog of askForFolder can come back with
BrowseDirs == {DirRepo}

\* main, step 3: the folder argument, the auto-save default, or askForFolder;
\* an empty saveDir ends the run
ResolveSaveDir ==
    /\ pc = "resolveDir"
    /\ IF Len(args) > 0
       THEN /\ saveDir' = TrimSpace(args[1])
            /\ UNCHANGED events
       ELSE IF cfg.AutoSave /\ cfg.StartDir \in ExistingDirs
       THEN /\ saveDir' = cfg.StartDir
            /\ UNCHANGED events
       ELSE \E r \in {<<>>} \cup BrowseDirs :
            /\ saveDir' = r
            /\ events' = Append(events,
                  Ev("dialog.Directory",
                     <<IF r = <<>> THEN "cancel" ELSE "ok", "select folder to save code into">>
                     \o (IF cfg.StartDir \in ExistingDirs THEN cfg.StartDir ELSE <<>>)))
    /\ pc' = IF saveDir' = <<>> THEN "done" ELSE "readClipboard"
    /\ UNCHANGED <<run, args, world, cfg, cancelled, isFirstRun, wiz,
                   written, content, firstLine, filenameRaw, safeFilename, gitMessage>>

\* step 4 reporting an empty or unreadable clipboard in a dialog
ReadClipboardReportsEmpty ==
    /\ pc = "readClipboard"
    /\ \E readable \in BOOLEAN :
         /\ content' = IF readable THEN clipboard ELSE <<>>
         /\ IF ~readable \/ content' = <<>>
            THEN /\ events' = events \o <<Ev("clipboard.ReadAll", <<IF readable THEN "ok" ELSE "err">>),
                                          Ev("dlgs.Error", <<"Clipboard is empty">>)>>
                 /\ pc' = "done"
            ELSE /\ events' = Append(events, Ev("clipboard.ReadAll", <<"ok">>))
                 /\ pc' = "parse"
    /\ UNCHANGED <<run, args, world, cfg, cancelled, isFirstRun, wiz,
                   written, saveDir, firstLine, filenameRaw, safeFilename, gitMessage>>

\* main, step 4: clipboard.ReadAll; an error or an empty text ends the run
ReadClipboard ==
    /\ pc = "readClipboard"
    /\ \E readable \in BOOLEAN :
         /\ content' = IF readable THEN clipboard ELSE <<>>
         /\ events' = Append(events, Ev("clipboard.ReadAll", <<IF readable THEN "ok" ELSE "err">>))
         /\ pc' = IF ~readable \/ content' = <<>> THEN "done" ELSE "parse"
    /\ UNCHANGED <<run, args, world, cfg, cancelled, isFirstRun, wiz,
                   written, saveDir, firstLine, filenameRaw, safeFilename, gitMessage>>

\* main, step 5: the first line, the prefix stripped, the name sanitized and
\* the extension appended; an empty first line ends the run
DeriveFilename ==
    /\ pc = "parse"
    /\ firstLine' = FirstLineOf(content)
    /\ IF firstLine' = <<>>
       THEN /\ pc' = "done"
            /\ UNCHANGED <<filenameRaw, safeFilename>>
       ELSE /\ filenameRaw' = FilenameRaw(firstLine', cfg.PrefixToStrip)
            /\ safeFilename' = SafeFilename(firstLine', cfg.PrefixToStrip, cfg.Extension)
            /\ pc' = "writeFile"
    /\ UNCHANGED <<run, args, events, world, cfg, cancelled, isFirstRun,
                   wiz, written, saveDir, content, gitMessage>>

\* filepath.Join(saveDir, safeFilename), kept as its two parts
FullPath == saveDir \o <<BSLASH>> \o safeFilename

\* os.WriteFile creates the file or replaces its bytes
FilesAfterWrite(fs, dir, name, bytes) ==
    {f \in fs : ~(f.dir = dir /\ f.name = name)}
        \cup {[dir |-> dir, name |-> name, bytes |-> bytes]}

\* step 6 with the return after the error dialog missing
WriteFileGoesOnAfterError ==
    /\ pc = "writeFile"
    /\ \E ok \in BOOLEAN :
         IF ok
         THEN /\ files' = FilesAfterWrite(files, saveDir, safeFilename, content)
              /\ events' = Append(events, Ev("os.WriteFile", <<"ok">>))
              /\ pc' = "git"
         ELSE /\ events' = events \o <<Ev("os.WriteFile", <<"err">>),
                                       Ev("dlgs.Error", <<"Error saving file">>)>>
              /\ pc' = "git"
              /\ UNCHANGED files
    /\ UNCHANGED <<run, args, cfgFile, registry, shortcut, clipboard, locals>>

\* main, step 6: os.WriteFile; an error shows the error dialog and ends the run
WriteFile ==
    /\ pc = "writeFile"
    /\ \E ok \in BOOLEAN :
         IF ok
         THEN /\ files' = FilesAfterWrite(files, saveDir, safeFilename, content)
              /\ events' = Append(events, Ev("os.WriteFile", <<"ok">>))
              /\ pc' = "git"
         ELSE /\ events' = events \o <<Ev("os.WriteFile", <<"err">>),
                                       Ev("dlgs.Error", <<"Error saving file">>)>>
              /\ pc' = "done"
              /\ UNCHANGED files
    /\ UNCHANGED <<run, args, cfgFile, registry, shortcut, clipboard, locals>>

\* how runGitCommit can end
GitOutcomes == {"git not found", "add", "commit", "ok"}

\* the commands runGitCommit runs before it returns with outcome o
GitEvents(o) ==
    IF o = "git not found" THEN <<Ev("exec.LookPath", <<"err">>)>>
    ELSE <<Ev("exec.LookPath", <<"ok">>)>>
         \o (IF o = "add" THEN <<Ev("git add", <<"err">> \o safeFilename)>>
             ELSE <<Ev("git add", <<"ok">> \o safeFilename),
                    Ev("git commit", <<IF o = "ok" THEN "ok" ELSE "err", "Auto-save: ">>
                                     \o safeFilename \o <<" (via dgGit)">>)>>)

\* gitMessage of main
GitMessageFor(o) ==
    IF o = "ok" THEN <<NL, "(Git Commit Successful)">>
    ELSE <<NL, "(Git Commit Failed: ", o, ")">>

\* step 7 with a failed commit ending the run
GitAutoCommitStopsOnError ==
    /\ pc = "git"
    /\ IF cfg.GitAutoCommit
       THEN \E o \in GitOutcomes :
              /\ events' = events \o GitEvents(o)
              /\ gitMessage' = GitMessageFor(o)
              /\ pc' = IF o = "ok" THEN "clear" ELSE "done"
       ELSE /\ gitMessage' = <<>>
            /\ pc' = "clear"
            /\ UNCHANGED events
    /\ UNCHANGED <<run, args, world, cfg, cancelled, isFirstRun, wiz,
                   written, saveDir, content, firstLine, filenameRaw, safeFilename>>

\* main, step 7: the commit when GitAutoCommit is set; its error only fills
\* gitMessage
GitAutoCommit ==
    /\ pc = "git"
    /\ IF cfg.GitAutoCommit
       THEN \E o \in GitOutcomes :
              /\ events' = events \o GitEvents(o)
              /\ gitMessage' = GitMessageFor(o)
       ELSE /\ gitMessage' = <<>>
            /\ UNCHANGED events
    /\ pc' = "clear"
    /\ UNCHANGED <<run, args, world, cfg, cancelled, isFirstRun, wiz,
                   written, saveDir, content, firstLine, filenameRaw, safeFilename>>

\* main, step 8: clipboard.WriteAll(""), its error dropped
ClearClipboard ==
    /\ pc = "clear"
    /\ \E ok \in BOOLEAN :
         /\ clipboard' = IF ok THEN <<>> ELSE clipboard
         /\ events' = Append(events, Ev("clipboard.WriteAll", <<IF ok THEN "ok" ELSE "err">>))
    /\ pc' = "notify"
    /\ UNCHANGED <<run, args, cfgFile, files, registry, shortcut, locals>>

\* main, step 9: the confirmation when ShowSuccess is set
ShowSuccess ==
    /\ pc = "notify"
    /\ events' = IF cfg.ShowSuccess
                 THEN Append(events, Ev("dlgs.Info", <<"Saved to:">> \o FullPath \o gitMessage))
                 ELSE events
    /\ pc' = "done"
    /\ UNCHANGED <<run, args, world, locals>>

\* ------------------------------------------------------------ invocations
ClipMain == <<"i", "n", "t", SP, "m", "a", "i", "n", "(", ")", "{", "}", NL, "b", "o", "d", "y">>
ClipBlankFirstLine == <<SP, CR, NL, "x">>
ClipStar == <<"a", "*", "b">>

\* what the user may have copied before an invocation
ClipSamples == {<<>>, ClipMain, ClipBlankFirstLine, ClipStar}

\* os.Args[1:]: nothing, the folder the shell passes, or a blank argument
ArgChoices == {<<>>, <<ArgDir>>, <<ArgBlank>>}

\* a config file edited by hand: upper-case key, spaces around '=', a quoted
\* prefix set, a line without '='
HandEditedText ==
    JoinLines(<<
        Comment("my settings"),
        <<"S", "T", "A", "R", "T", "D", "I", "R", SP, "=", SP>> \o DirGone,
        KeyLine(KeyPrefixToStrip, <<QUOTE, "v", "o", "i", "d", SP, "|", "i", "n", "t", SP, QUOTE>>),
        KeyLine(KeyShowSuccessMessage, StrFalse),
        KeyLine(KeyAutoSave, StrTrue) \o <<CR>>,
        KeyLine(KeyGitAutoCommit, StrTrue),
        <<"n", "o", "t", SP, "a", SP, "s", "e", "t", "t", "i", "n", "g">>
    >>)

NoConfigFile == [exists |-> FALSE, text |-> <<>>]

\* the locals of main before loadConfig returns
InitLocals ==
    /\ cfg = ZeroConfig
    /\ cancelled = FALSE
    /\ isFirstRun = FALSE
    /\ wiz = NoAnswers
    /\ saveDir = <<>>
    /\ content = <<>>
    /\ firstLine = <<>>
    /\ filenameRaw = <<>>
    /\ safeFilename = <<>>
    /\ gitMessage = <<>>

Init ==
    /\ pc = "loadConfig"
    /\ run = 1
    /\ cfgFile \in {NoConfigFile, [exists |-> TRUE, text |-> HandEditedText]}
    /\ files = {}
    /\ registry \in {RegEmpty, RegStale}
    /\ shortcut = FALSE
    /\ clipboard \in ClipSamples
    /\ args \in ArgChoices
    /\ events = <<>>
    /\ written = ZeroConfig
    /\ InitLocals

\* the process has ended; the program is started again, the files, the
\* registry and the config file being what the last invocation left
Relaunch ==
    /\ pc = "done"
    /\ run < MaxRuns
    /\ run' = run + 1
    /\ pc' = "loadConfig"
    /\ clipboard' \in {clipboard} \cup ClipSamples
    /\ args' \in ArgChoices
    /\ events' = <<>>
    /\ cfg' = ZeroConfig
    /\ cancelled' = FALSE
    /\ isFirstRun' = FALSE
    /\ wiz' = NoAnswers
    /\ saveDir' = <<>>
    /\ content' = <<>>
    /\ firstLine' = <<>>
    /\ filenameRaw' = <<>>
    /\ safeFilename' = <<>>
    /\ gitMessage' = <<>>
    /\ UNCHANGED <<cfgFile, files, registry, shortcut, written>>

Next ==
    \/ LoadConfig
    \/ WizardDirectory
    \/ WizardExtension
    \/ WizardPrefix
    \/ WizardGit
    \/ WizardAutoSave
    \/ WizardShortcut
    \/ WizardFinish
    \/ ReturnIfCancelled
    \/ UpdateRegistry
    \/ ResolveSaveDir
    \/ ReadClipboard
    \/ DeriveFilename
    \/ WriteFile
    \/ GitAutoCommit
    \/ ClearClipboard
    \/ ShowSuccess
    \/ Relaunch

Spec == Init /\ [][Next]_vars

\* ------------------------------------------------- file names, exhaustively
LineVoidFoo == <<"v", "o", "i", "d", SP, "f", "o", "o", "(", ")", "{", "}">>
NameFoo == <<"f", "o", "o", "(", ")", "{", "}">>
NameMainDg == <<"m", "a", "i", "n", "(", ")", "{", "}", ".", "d", "g">>
ExtStar == <<".", "d", "*">>

ClipAlphabet == {"a", SP, "|", NL}
PrefixAlphabet == {"a", "|"}

\* the clipboard texts, prefix sets and extensions the derivation is run on
NameClips == StringsUpTo(ClipAlphabet, MaxClipLen)
                \cup {ClipMain, LineVoidFoo, ClipBlankFirstLine, ClipStar,
                      <<"a", CR, "a", CR, NL>>, <<"a", "|", "*">>, <<"*", "a">>,
                      <<"<", ">", ":", QUOTE, "/", BSLASH, "|", "?", "*">>}
NamePrefixes == StringsUpTo(PrefixAlphabet, MaxPrefixLen)
                   \cup {WizardPrefixDefault, <<"a", SP>>, <<"a", SP, "|">>,
                         <<SP, "|", "a", SP, "|", "a">>, <<"*", "|", "a">>}
NameExts == {DefaultExtension, ExtStar}

\* an invocation that has loaded its configuration, refreshed the registry
\* and resolved its save directory: the save pipeline from step 4 on
InitName ==
    /\ pc = "readClipboard"
    /\ run = 1
    /\ cfgFile = NoConfigFile
    /\ files = {}
    /\ registry = RegistryAfter(RegEmpty, "none")
    /\ shortcut = FALSE
    /\ clipboard \in NameClips
    /\ args = <<>>
    /\ events = <<>>
    /\ written = ZeroConfig
    /\ \E p \in NamePrefixes : \E e \in NameExts :
         cfg = [DefaultConfig EXCEPT !.PrefixToStrip = p, !.Extension = e,
                                     !.StartDir = DirRepo, !.AutoSave = TRUE]
    /\ cancelled = FALSE
    /\ isFirstRun = FALSE
    /\ wiz = NoAnswers
    /\ saveDir = DirRepo
    /\ content = <<>>
    /\ firstLine = <<>>
    /\ filenameRaw = <<>>
    /\ safeFilename = <<>>
    /\ gitMessage = <<>>

NextName ==
    \/ ReadClipboard
    \/ DeriveFilename
    \/ WriteFile

SpecName == InitName /\ [][NextName]_vars

\* ------------------------------------------------------------- properties
WizardPcs == {"wizard.directory", "wizard.extension", "wizard.prefix", "wizard.git",
              "wizard.autoSave", "wizard.shortcut", "wizard.finish"}
SavePcs == {"resolveDir", "readClipboard", "parse", "writeFile", "git", "clear", "notify"}
SaveOps == {"clipboard.ReadAll", "os.WriteFile", "exec.LookPath", "git add",
            "git commit", "clipboard.WriteAll"}
GitOps == {"exec.LookPath", "git add", "git commit"}
WizardTitles == {"Step 1", "Step 2", "Step 3", "Step 4: Git Integration",
                 "Step 5: Auto-Save Mode", "Step 6: Desktop Shortcut"}

LastEvent == events[Len(events)]
WroteThisRun == HasEventWith(events, "os.WriteFile", "ok")
ClearCalled == HasEvent(events, "clipboard.WriteAll")
GitCalled == \E i \in 1..Len(events) : events[i].op \in GitOps
SavedDialogShown == HasEventWith(events, "dlgs.Info", "Saved to:")
FolderPrompt(e) == e.op = "dialog.Directory" /\ e.arg[2] = "select folder to save code into"
SetupErrorDialog == Ev("dlgs.Error", <<"Setup Error">>)

\* this invocation found no config file: the wizard runs or has run
FirstRun == isFirstRun \/ pc \in WizardPcs

\* the clipboard is empty for the whole invocation, or reading it failed
ClipboardEmptyOrUnreadable ==
    \/ HasEventWith(events, "clipboard.ReadAll", "err")
    \/ (clipboard = <<>> /\ ~ClearCalled)

\* a wizard prompt of this invocation was cancelled, the yes/no ones included
WizardPromptCancelled ==
    \E i \in 1..Len(events) :
        /\ events[i].op \in {"dialog.Directory", "dlgs.Entry", "dlgs.Question"}
        /\ events[i].arg[1] \in {"cancel", "dismissed"}
        /\ events[i].arg[2] \in WizardTitles

\* the directory, extension or prefix prompt of the wizard was cancelled
WizardEntryCancelled ==
    \E i \in 1..Len(events) :
        /\ events[i].op \in {"dialog.Directory", "dlgs.Entry"}
        /\ events[i].arg[1] = "cancel"
        /\ events[i].arg[2] \in WizardTitles

\* C1 (as claimed): a Config written by saveConfigToFile and read back by
\* loadConfig from that file is the Config that was written, field by field.
C1_RoundTrip ==
    (/\ pc = "afterLoad"
     /\ HasEventWith(events, "os.Open", "ok")
     /\ cfgFile.text = ConfigText(written))
    => cfg = written

\* C2 (as claimed): an invocation whose clipboard is empty or unreadable
\* writes no file and shows no dialog at all.
C2_NoDialogAtAll ==
    (pc = "done" /\ ClipboardEmptyOrUnreadable)
    => (~WroteThisRun /\ Dialogs(events) = <<>>)

\* C2 (amended): with the clipboard empty or unreadable no file is written,
\* no git command runs, the clipboard is not written, and the read is the
\* last thing the run does: no dialog follows it.  The dialogs of such a run
\* all precede the read: the wizard's on a first run, the setup-error dialog
\* after a failed registry update, the folder prompt when there is no
\* argument and auto-save does not apply.
C2_SilentFromTheRead ==
    ClipboardEmptyOrUnreadable =>
        /\ ~WroteThisRun
        /\ ~GitCalled
        /\ ~ClearCalled
        /\ ~SavedDialogShown
        /\ HasEvent(events, "clipboard.ReadAll")
             => (pc = "done" /\ LastEvent.op = "clipboard.ReadAll")
        /\ \A i \in 1..Len(events) :
             events[i].op \in DialogOps =>
                \/ FirstRun
                \/ /\ events[i] = SetupErrorDialog
                   /\ i > 1
                   /\ events[i - 1].op = "updateRegistry"
                   /\ events[i - 1].arg[1] = "err"
                \/ /\ FolderPrompt(events[i])
                   /\ Len(args) = 0
                   /\ ~(cfg.AutoSave /\ cfg.StartDir \in ExistingDirs)

\* C2 witness: the folder prompt was answered, the read found nothing, the
\* run is over.
C2_Witness ==
    /\ pc = "done"
    /\ ClipboardEmptyOrUnreadable
    /\ Len(events) >= 2
    /\ LastEvent.op = "clipboard.ReadAll"
    /\ HasEventWith(events, "dialog.Directory", "ok")

\* C3 (as claimed): a cancelled wizard prompt, whichever it is, ends the run
\* with the cancelled flag set, no config file and no save.
C3_AnyPromptAborts ==
    (pc = "done" /\ WizardPromptCancelled)
    => (cancelled /\ ~cfgFile.exists /\ ~WroteThisRun /\ ~ClearCalled)

\* C3 (amended): cancelling the directory, extension or prefix prompt sets
\* the cancelled flag, and the run ends there: the warning is the last thing
\* shown, no config file is created, the registry is not touched, nothing is
\* saved and the clipboard is not cleared; the flag is set by nothing else.
\* A yes/no prompt cannot abort the wizard: dismissed, it counts as No and
\* the wizard goes on to save the configuration.
C3_EntryCancelAborts ==
    /\ WizardEntryCancelled =>
         /\ cancelled
         /\ pc \in {"afterLoad", "done"}
         /\ cfg = ZeroConfig
         /\ ~cfgFile.exists
         /\ LastEvent = Ev("dlgs.Warning", <<"Setup was cancelled.">>)
         /\ events[Len(events) - 1].arg[1] = "cancel"
         /\ ~HasEvent(events, "saveConfigToFile")
         /\ ~HasEvent(events, "updateRegistry")
         /\ \A i \in 1..Len(events) : events[i].op \notin SaveOps
    /\ cancelled => WizardEntryCancelled
    /\ (HasEventWith(events, "dlgs.Question", "dismissed") /\ pc \in {"afterLoad", "done"})
         => (~cancelled /\ HasEvent(events, "saveConfigToFile") /\ cfg = NewCfg(wiz))
    /\ \A i \in 1..Len(events) :
         (events[i].op = "dlgs.Question" /\ events[i].arg = <<"dismissed", "Step 4: Git Integration">>)
            => ~wiz.useGit

\* C3 witness: the prefix prompt was cancelled and the run is over.
C3_Witness ==
    /\ pc = "done"
    /\ cancelled
    /\ HasEventWith(events, "dlgs.Entry", "cancel")
    /\ Len(events) > 1
    /\ events[Len(events) - 1] = Ev("dlgs.Entry", <<"cancel", "Step 3">>)

GitFailed ==
    \/ HasEventWith(events, "exec.LookPath", "err")
    \/ HasEventWith(events, "git add", "err")
    \/ HasEventWith(events, "git commit", "err")

\* the reason runGitCommit's error carries
GitFailure ==
    IF HasEventWith(events, "exec.LookPath", "err") THEN "git not found"
    ELSE IF HasEventWith(events, "git add", "err") THEN "add"
    ELSE "commit"

\* C5: a failed commit (git missing, 'git add' failed, 'git commit' failed)
\* does not end the run: the file written stays, the clipboard is cleared
\* next, and when ShowSuccess is set the confirmation is shown with the
\* failure after the path; 'git commit' is not run after a failed 'git add',
\* and neither is run when git is missing.
C5_CommitFailureGoesOn ==
    GitFailed =>
        /\ cfg.GitAutoCommit
        /\ [dir |-> saveDir, name |-> safeFilename, bytes |-> content] \in files
        /\ pc \in {"clear", "notify", "done"}
        /\ pc \in {"notify", "done"} =>
              /\ ClearCalled
              /\ HasEventWith(events, "clipboard.WriteAll", "ok") => clipboard = <<>>
        /\ (pc = "done" /\ cfg.ShowSuccess) =>
              LastEvent = Ev("dlgs.Info", <<"Saved to:">> \o FullPath
                                          \o <<NL, "(Git Commit Failed: ", GitFailure, ")">>)
        /\ (pc = "done" /\ ~cfg.ShowSuccess) => LastEvent.op = "clipboard.WriteAll"
        /\ HasEventWith(events, "git add", "err") => ~HasEvent(events, "git commit")
        /\ HasEventWith(events, "exec.LookPath", "err")
              => (~HasEvent(events, "git add") /\ ~HasEvent(events, "git commit"))

\* C5 witness: 'git add' failed, and the run ended with the confirmation.
C5_Witness ==
    /\ pc = "done"
    /\ HasEventWith(events, "git add", "err")
    /\ cfg.ShowSuccess
    /\ clipboard = <<>>

\* C6: a failed write ends the run with the error dialog: no git command, no
\* clearing of the clipboard (it still holds what was read), no
\* confirmation.  The clipboard is cleared only after a write that succeeded
\* earlier in the same invocation.
C6_WriteFailureAborts ==
    /\ HasEventWith(events, "os.WriteFile", "err") =>
          /\ pc = "done"
          /\ LastEvent = Ev("dlgs.Error", <<"Error saving file">>)
          /\ events[Len(events) - 1] = Ev("os.WriteFile", <<"err">>)
          /\ ~GitCalled
          /\ ~ClearCalled
          /\ ~SavedDialogShown
          /\ clipboard = content
          /\ content # <<>>
    /\ \A j \in 1..Len(events) :
          events[j].op = "clipboard.WriteAll"
             => \E i \in 1..(j - 1) : events[i] = Ev("os.WriteFile", <<"ok">>)

\* C6 witness: the write failed with git and the confirmation both enabled.
C6_Witness ==
    /\ pc = "done"
    /\ HasEventWith(events, "os.WriteFile", "err")
    /\ cfg.GitAutoCommit
    /\ cfg.ShowSuccess

\* C10: an invocation that finds no config file never saves: it resolves no
\* directory, reads no clipboard, writes no file, runs no git command and
\* does not clear the clipboard, whether the wizard completes or is
\* cancelled and whatever the arguments.  When the wizard completes, the run
\* saves the configuration and refreshes the registry, and ends.
C10_FirstRunNeverSaves ==
    FirstRun =>
        /\ pc \notin SavePcs
        /\ saveDir = <<>>
        /\ content = <<>>
        /\ \A i \in 1..Len(events) :
              events[i].op \notin SaveOps /\ ~FolderPrompt(events[i])
        /\ (pc = "done" /\ ~cancelled) =>
              /\ HasEvent(events, "saveConfigToFile")
              /\ HasEvent(events, "updateRegistry")
              /\ LastEvent.op \in {"updateRegistry", "dlgs.Error"}

\* C10 witness: the wizard completed with a folder argument passed and text
\* on the clipboard; the registry was refreshed and the run is over.
C10_Witness ==
    /\ pc = "done"
    /\ isFirstRun
    /\ ~cancelled
    /\ Len(args) > 0
    /\ clipboard = ClipMain
    /\ cfgFile.exists
    /\ HasEventWith(events, "updateRegistry", "ok")

\* the invocation has derived its file name
NameDerived == pc \in {"writeFile", "git", "clear", "notify"} \/ HasEvent(events, "os.WriteFile")

HasIllegal(str) == \E i \in 1..Len(str) : str[i] \in IllegalSet

\* the candidates of the configured prefix set, in listed order
Candidates == Split(cfg.PrefixToStrip, "|")

\* the places of the non-empty candidates the first line starts with
Matching ==
    {i \in 1..Len(Candidates) :
        /\ Candidates[i] # <<>>
        /\ Len(Candidates[i]) <= Len(firstLine)
        /\ \A k \in 1..Len(Candidates[i]) : firstLine[k] = Candidates[i][k]}

FirstMatching == CHOOSE i \in Matching : \A j \in Matching : i <= j

\* the part of the file name before the configured extension
BaseName == SubSeq(safeFilename, 1, Len(safeFilename) - Len(cfg.Extension))

\* the first line as the clipboard text gives it: up to the first newline,
\* without carriage returns, without blanks at either end
IsFirstLineOf(line, text) ==
    LET n == IF \E i \in 1..Len(text) : text[i] = NL
             THEN (CHOOSE i \in 1..Len(text) :
                      text[i] = NL /\ \A j \in 1..(i - 1) : text[j] # NL) - 1
             ELSE Len(text)
        kept == SelectSeq(SubSeq(text, 1, n), LAMBDA c : c # CR)
    IN  /\ line # <<>> => (~IsSpace(line[1]) /\ ~IsSpace(line[Len(line)]))
        /\ \E a \in 0..Len(kept) :
              /\ a + Len(line) <= Len(kept)
              /\ SubSeq(kept, a + 1, a + Len(line)) = line
              /\ \A i \in (1..a) \cup ((a + Len(line) + 1)..Len(kept)) : IsSpace(kept[i])

\* C7 (as claimed): when the first line holds an illegal character, the file
\* name written to, extension included, holds none.
C7_WholeNameLegal ==
    (NameDerived /\ HasIllegal(firstLine)) => ~HasIllegal(safeFilename)

\* C7 (amended): the file name is the sanitized base name followed by the
\* configured extension as it is.  The base name is what is left of the first
\* line after the prefix is stripped and the blanks trimmed, with '_' at every
\* place of an illegal character and every other character kept, so it holds
\* no illegal character; the extension is not sanitized.
C7_BaseNameLegal ==
    NameDerived =>
        LET t == TrimSpace(filenameRaw) IN
        /\ safeFilename = BaseName \o cfg.Extension
        /\ ~HasIllegal(BaseName)
        /\ Len(BaseName) = Len(t)
        /\ \A i \in 1..Len(t) :
              BaseName[i] = IF t[i] \in IllegalSet THEN "_" ELSE t[i]

\* C7 witness: a first line with '|' and '*' in it, written under a name
\* whose base has '_' for both.
C7_Witness ==
    /\ HasEventWith(events, "os.WriteFile", "ok")
    /\ firstLine = <<"a", "|", "*">>
    /\ cfg.PrefixToStrip = <<>>
    /\ cfg.Extension = ExtStar
    /\ \E f \in files : f.name = <<"a", "_", "_">> \o ExtStar

\* C8: the first non-empty candidate, in listed order, that the first line
\* starts with is the one removed, once, and no later candidate counts.  With
\* the prefix set "void |int |string " the line "void foo(){}" gives
\* "foo(){}", and the clipboard "int main(){}\nbody" with extension .dg is
\* written, whole, to main(){}.dg.
C8_FirstMatchWins ==
    /\ (NameDerived /\ Matching # {}) =>
          /\ firstLine = Candidates[FirstMatching] \o filenameRaw
          /\ BaseName = sanitizeFilename(TrimSpace(filenameRaw))
    /\ (NameDerived /\ cfg.PrefixToStrip = WizardPrefixDefault /\ firstLine = LineVoidFoo)
          => (filenameRaw = NameFoo /\ BaseName = NameFoo)
    /\ (/\ HasEventWith(events, "os.WriteFile", "ok")
        /\ content = ClipMain
        /\ cfg.PrefixToStrip = WizardPrefixDefault
        /\ cfg.Extension = DefaultExtension)
          => /\ safeFilename = NameMainDg
             /\ [dir |-> saveDir, name |-> NameMainDg, bytes |-> ClipMain] \in files

\* C8 witness: two candidates of different length both match; the first wins.
C8_Witness ==
    /\ HasEventWith(events, "os.WriteFile", "ok")
    /\ cfg.PrefixToStrip = <<"a", "|", "a", "a">>
    /\ firstLine = <<"a", "a", "|">>
    /\ filenameRaw = <<"a", "|">>

\* C9: when the first line starts with no non-empty candidate, nothing is
\* removed: the derived name is the trimmed first line of the clipboard text,
\* and the file name is that line sanitized plus the extension.
C9_NoMatchKeepsLine ==
    (NameDerived /\ Matching = {}) =>
        /\ IsFirstLineOf(firstLine, content)
        /\ filenameRaw = firstLine
        /\ Len(BaseName) = Len(firstLine)
        /\ ~HasIllegal(firstLine) => BaseName = firstLine

\* C9 witness: candidates are configured, none matches, the line is kept.
C9_Witness ==
    /\ HasEventWith(events, "os.WriteFile", "ok")
    /\ cfg.PrefixToStrip = <<"a", SP, "|">>
    /\ content = <<SP, "a", "a">>
    /\ filenameRaw = <<"a", "a">>
    /\ safeFilename = <<"a", "a">> \o cfg.Extension

====
